---------------------------- MODULE Spec2Model ----------------------------
(***************************************************************************)
(* Model of the real-time Q&A backend: the ConnectionManager of            *)
(* app/ws_manager.py (the live-connection list and its fan-out broadcast)  *)
(* and the HTTP handlers of app/main.py that commit a change to the        *)
(* question store and then broadcast the resulting event.                  *)
(*                                                                         *)
(* Scheduling: one asyncio event loop.  A step of the model is the code a  *)
(* task runs between two awaits.  The handlers are `async def` and use the *)
(* synchronous SQLAlchemy session, so query / check / commit / refresh run *)
(* without suspension; the suspension points are `await conn.send_json`    *)
(* inside broadcast, `await websocket.accept()` and `await                 *)
(* websocket.receive_text()`, and `await websocket.send_text("pong")`.     *)
(***************************************************************************)
EXTENDS Integers, Sequences, FiniteSets, TLC

\* ------------------------------------------------------------------ bounds
\* Number of websocket connections that are ever opened.
MaxConns == 3
\* Number of HTTP requests that are ever made.
MaxRequests == 2
\* Largest question id a request may name (ids above the stored ones do not exist).
MaxQuestions == 2

\* Number of questions the stored table of the read handlers holds at most.
MaxRows == 3
\* Number of ticks of the database clock over which they were inserted.
MaxTime == 3

\* Number of pings a client sends on one connection.
MaxPings == 1

Conns == 1..MaxConns
Requests == 1..MaxRequests
QuestionIds == 1..MaxQuestions

\* ------------------------------------------------------- values of the code
\* Python's None in the nullable integer columns user_id and answered_by.
None == 0

\* A row of the users table (the password hash plays no part in the model).
User(username, email, is_admin_flag) ==
    [username |-> username, email |-> email, is_admin |-> is_admin_flag]

\* The users table when the process starts: ids 1 and 2 were registered with
\* the admin code, id 3 without.
InitialUsers == <<User("u1", "e1", TRUE), User("u2", "e2", TRUE),
                  User("u3", "e3", FALSE)>>
UserIds == 1..Len(InitialUsers)
AdminIds == {u \in UserIds : InitialUsers[u].is_admin}

\* The token query parameter: 0 is a missing or empty token, -1 a token that
\* jwt.decode rejects (tampered, expired, garbage), k > 0 a token that
\* verifies and carries user_id k (4 is the id of no user stored at the start).
Tokens == {0, -1, 1, 2, 3, 4}

\* Request bodies of POST /register: the usernames and emails a body may
\* carry (u1 and e1 are those of a stored user).
Usernames == {"u1", "u4", "u5"}
Emails == {"e1", "e4", "e5"}

\* Request bodies of POST /questions: " " is whitespace, "x" any other character.
Messages == { <<>>, <<" ">>, <<" ", " ">>, <<"x">>, <<" ", "x">>,
              <<"x", " ">>, <<" ", "x", " ">> }

VARIABLES
    active_connections,  \* ConnectionManager.active_connections: list of connections
    ws,                  \* per connection: position of its websocket_endpoint task
    transport,           \* per connection: state of the client's transport
    received,            \* per connection: the JSON events its client was sent, in order
    send_failed,         \* connections for which a send_json inside broadcast raised
    questions,           \* the questions table: question_id -> row
    users,               \* the users table: user_id -> row
    req                  \* per HTTP request: the handler task's position and locals

vars == <<active_connections, ws, transport, received, send_failed, questions,
          users, req>>

\* ------------------------------------------------------------- pure helpers
RECURSIVE lstrip(_)
lstrip(s) == IF s = <<>> THEN s
             ELSE IF Head(s) = " " THEN lstrip(Tail(s)) ELSE s

RECURSIVE rstrip(_)
rstrip(s) == IF s = <<>> THEN s
             ELSE IF s[Len(s)] = " " THEN rstrip(SubSeq(s, 1, Len(s) - 1)) ELSE s

\* A strip that removes nothing.
strip_nothing(s) == s

\* str.strip()
strip(s) == rstrip(lstrip(s))

\* A decode that does not verify: the rejected token passes as user 1's.
decode_token_unverified(token) == IF token = -1 THEN 1 ELSE token

\* auth.decode_token: the payload's user_id, or None when jwt.decode raises.
decode_token(token) == IF token = -1 THEN None ELSE token

\* main.get_current_user: the stored user a token resolves to, or None.
get_current_user(token) ==
    IF token = 0 THEN None
    ELSE LET uid == decode_token(token) IN
         IF uid = None THEN None
         ELSE IF uid \in 1..Len(users) THEN uid ELSE None

\* An admin check that passes every stored user.
is_admin_any_user(user) == user \in 1..Len(users)

\* user.is_admin of a stored user.
is_admin(user) == users[user].is_admin

\* list.remove(x) after an `in` test: the list without its first x.
RECURSIVE Remove(_, _)
Remove(s, x) == IF s = <<>> THEN s
                ELSE IF Head(s) = x THEN Tail(s)
                ELSE <<Head(s)>> \o Remove(Tail(s), x)

InSeq(s, x) == \E i \in 1..Len(s) : s[i] = x

\* ------------------------------------------------------------------- rows
\* A row whose status column defaults to the wrong value.
NewQuestion_wrong_default(message) ==
    [user_id |-> None, message |-> message, status |-> "Escalated",
     escalated |-> FALSE, answered_by |-> None]

\* Question(message=...) after commit and refresh: the column defaults.
NewQuestion(message) ==
    [user_id |-> None, message |-> message, status |-> "Pending",
     escalated |-> FALSE, answered_by |-> None]

\* The local state of a handler task that is not inside broadcast.
NoLocals == [message |-> <<>>, snapshot |-> <<>>, idx |-> 0, living |-> <<>>]

NewRequest == [pc |-> "new", op |-> "none", question_id |-> 0,
               response |-> [code |-> 0, question_id |-> 0, questions |-> <<>>]]
              @@ NoLocals

\* A handler's response: the status code, the question_id of the question it
\* returns (0 when the body is not a question) and, for GET /questions, the
\* question_ids of the list it returns, in order.
Response(code, qid) == [code |-> code, question_id |-> qid, questions |-> <<>>]

\* --------------------------------------------------------------- the state
\* The process starts with no connection and no request.  The questions
\* table is a database file that outlives the process: it is empty, or holds
\* a question submitted in an earlier run.
Init ==
    /\ active_connections = <<>>
    /\ ws = [c \in Conns |-> "new"]
    /\ transport = [c \in Conns |-> "none"]
    /\ received = [c \in Conns |-> <<>>]
    /\ send_failed = {}
    /\ users = InitialUsers
    /\ questions \in {<<>>, <<NewQuestion(<<"x">>)>>}
    /\ req = [r \in Requests |-> NewRequest]


\* ------------------------------------------------- ConnectionManager (pure)
\* A disconnect that drops every connection.
disconnect_clears(conns, c) == IF InSeq(conns, c) THEN <<>> ELSE conns

\* ConnectionManager.disconnect: remove the connection if it is in the list.
disconnect(conns, c) == IF InSeq(conns, c) THEN Remove(conns, c) ELSE conns

\* A transport that hands the client the latest frame first.
deliver_first(frames, message) == <<message>> \o frames

\* conn.send_json(message) on an open transport: the client gets the frame
\* after the frames it was sent before.
deliver(frames, message) == Append(frames, message)

\* conn.send_json succeeds on an open transport and raises on a closed one.
send_ok(c) == transport[c] = "open"

\* after_send with the failing connection kept in `living`.
after_send_keeps_failed(living, c, ok) == Append(living, c)

\* One iteration of broadcast's loop body on the local list `living`:
\* living.append(conn) after a successful send, nothing in the except branch.
after_send(living, c, ok) == IF ok THEN Append(living, c) ELSE living

\* A broadcast whose caught send failure is raised again on return: the
\* handler ends in a 500.
Returned_raises(r) ==
    IF send_ok(req[r].snapshot[req[r].idx]) /\ Len(req[r].living) = req[r].idx - 1
    THEN Response(200, IF req[r].op = "submit" THEN req[r].question_id ELSE 0)
    ELSE Response(500, 0)

\* The handler's return value once broadcast has returned: submit_question
\* returns the question, the other two a detail message.
Returned(r) ==
    Response(200, IF req[r].op = "submit" THEN req[r].question_id ELSE 0)

\* ----------------------------------------------------- the event payloads
new_question_event(r, qid, row) ==
    [type |-> "new_question", src |-> r,
     question |-> [question_id |-> qid, user_id |-> row.user_id,
                   message |-> row.message, status |-> row.status,
                   escalated |-> row.escalated, answered_by |-> row.answered_by]]

answered_event(r, qid, row) ==
    [type |-> "question_updated", src |-> r,
     question |-> [question_id |-> qid, status |-> row.status,
                   answered_by |-> row.answered_by]]

escalated_event(r, qid, row) ==
    [type |-> "question_updated", src |-> r,
     question |-> [question_id |-> qid, status |-> row.status,
                   escalated |-> row.escalated]]

IsAnswerEvent(e) ==
    e.type = "question_updated" /\ "answered_by" \in DOMAIN e.question
IsEscalationEvent(e) ==
    e.type = "question_updated" /\ "escalated" \in DOMAIN e.question
IsNewQuestionEvent(e) == e.type = "new_question"

\* ------------------------------------------------------ the row updates
\* An answer that keeps the answered_by of an earlier answer.
answer_row_first_wins(row, user) ==
    [row EXCEPT !.status = "Answered",
                !.answered_by = IF row.answered_by = None THEN user ELSE row.answered_by]

\* answer_question: question.status = "Answered"; question.answered_by = user.user_id
answer_row(row, user) ==
    [row EXCEPT !.status = "Answered", !.answered_by = user]

\* An escalation that sets the flag and leaves the status.
escalate_row_flag_only(row) == [row EXCEPT !.escalated = TRUE]

\* escalate_question: question.escalated = True; question.status = "Escalated"
escalate_row(row) == [row EXCEPT !.escalated = TRUE, !.status = "Escalated"]

\* escalate_question without its conflict check.
never_escalated(row) == FALSE

\* escalate_question: `if question.escalated` raises the 400
already_escalated(row) == row.escalated

\* db.query(Question).filter(Question.question_id == question_id).first() is not None
question_exists(qid) == qid \in 1..Len(questions)

\* An insert that stores the row over the last one.
insert_over_last(table, row) ==
    IF table = <<>> THEN <<row>> ELSE [table EXCEPT ![Len(table)] = row]

\* db.add(question); db.commit(): the row is stored under the next id.
insert(table, row) == Append(table, row)

\* An update that is broadcast without having been committed.
commit_lost(table, qid, row) == table

\* db.commit() of an update to the row of question qid.
commit(table, qid, row) == [table EXCEPT ![qid] = row]

\* ------------------------------------------------------------- broadcast
\* The call of manager.broadcast(message) by handler r, up to its first
\* await: living = [] and the snapshot list(self.active_connections).  With
\* an empty snapshot the loop body never runs and broadcast assigns and
\* returns without suspending.
broadcast_begin(r, op, qid, message) ==
    LET snapshot == active_connections IN
    /\ IF snapshot = <<>>
       THEN /\ active_connections' = <<>>
            /\ req' = [req EXCEPT ![r] =
                   [pc |-> "done", op |-> op, question_id |-> qid,
                    response |-> Response(200, IF op = "submit" THEN qid ELSE 0)]
                   @@ NoLocals]
       ELSE /\ UNCHANGED active_connections
            /\ req' = [req EXCEPT ![r] =
                   [pc |-> "sending", op |-> op, question_id |-> qid,
                    response |-> Response(0, 0), message |-> message,
                    snapshot |-> snapshot, idx |-> 1, living |-> <<>>]]
    /\ UNCHANGED <<received, send_failed>>

\* One `await conn.send_json(message)` of broadcast completes (or raises and
\* is caught) and the task runs on to its next await: the next send, or,
\* after the last connection of the snapshot, self.active_connections =
\* living and the handler's return.
broadcast_send(r) ==
    /\ req[r].pc = "sending"
    /\ LET c == req[r].snapshot[req[r].idx]
           ok == send_ok(c)
           living == after_send(req[r].living, c, ok)
       IN /\ received' = IF ok THEN [received EXCEPT ![c] = deliver(@, req[r].message)]
                         ELSE received
          /\ send_failed' = IF ok THEN send_failed ELSE send_failed \cup {c}
          /\ IF req[r].idx = Len(req[r].snapshot)
             THEN /\ active_connections' = living
                  /\ req' = [req EXCEPT ![r] =
                         [pc |-> "done", op |-> req[r].op,
                          question_id |-> req[r].question_id,
                          response |-> Returned(r)] @@ NoLocals]
             ELSE /\ UNCHANGED active_connections
                  /\ req' = [req EXCEPT ![r].idx = @ + 1, ![r].living = living]
    /\ UNCHANGED <<ws, transport, questions, users>>

\* ------------------------------------------------------------ the handlers
\* Request r arrives: requests are numbered in the order of their arrival.
Arrives(r) ==
    /\ req[r].pc = "new"
    /\ \A p \in Requests : p < r => req[p].pc # "new"

\* A handler that raises HTTPException before touching the store.
Reject(r, op, qid, code) ==
    /\ req' = [req EXCEPT ![r] =
           [pc |-> "done", op |-> op, question_id |-> qid,
            response |-> Response(code, 0)] @@ NoLocals]
    /\ UNCHANGED <<active_connections, received, send_failed, questions>>

\* POST /questions
submit_question(r, m) ==
    /\ Arrives(r)
    /\ UNCHANGED <<ws, transport, users>>
    /\ IF m = <<>>
       THEN Reject(r, "submit", 0, 422)
       ELSE IF strip(m) = <<>>
       THEN Reject(r, "submit", 0, 400)
       ELSE /\ Len(questions) < MaxQuestions
            /\ LET qid == Len(questions) + 1
                   row == NewQuestion(strip(m))
               IN /\ questions' = insert(questions, row)
                  /\ broadcast_begin(r, "submit", qid, new_question_event(r, qid, row))

\* An answer handler that checks the caller before it looks for the question.
answer_question_auth_first(r, qid, token) ==
    /\ Arrives(r)
    /\ UNCHANGED <<ws, transport, users>>
    /\ LET user == get_current_user(token) IN
       IF user = None \/ ~is_admin(user)
       THEN Reject(r, "answer", qid, 403)
       ELSE IF ~question_exists(qid)
       THEN Reject(r, "answer", qid, 404)
       ELSE LET row == answer_row(questions[qid], user) IN
            /\ questions' = commit(questions, qid, row)
            /\ broadcast_begin(r, "answer", qid, answered_event(r, qid, row))

\* POST /questions/{question_id}/answer
answer_question(r, qid, token) ==
    /\ Arrives(r)
    /\ UNCHANGED <<ws, transport, users>>
    /\ IF ~question_exists(qid)
       THEN Reject(r, "answer", qid, 404)
       ELSE LET user == get_current_user(token) IN
            IF user = None \/ ~is_admin(user)
            THEN Reject(r, "answer", qid, 403)
            ELSE LET row == answer_row(questions[qid], user) IN
                 /\ questions' = commit(questions, qid, row)
                 /\ broadcast_begin(r, "answer", qid, answered_event(r, qid, row))

\* POST /questions/{question_id}/escalate
escalate_question(r, qid) ==
    /\ Arrives(r)
    /\ UNCHANGED <<ws, transport, users>>
    /\ IF ~question_exists(qid)
       THEN Reject(r, "escalate", qid, 404)
       ELSE IF already_escalated(questions[qid])
       THEN Reject(r, "escalate", qid, 400)
       ELSE LET row == escalate_row(questions[qid]) IN
            /\ questions' = commit(questions, qid, row)
            /\ broadcast_begin(r, "escalate", qid, escalated_event(r, qid, row))

\* ------------------------------------------------------------ registration
\* An existence check that looks at the username alone.
user_exists_username_only(username, email) ==
    \E u \in 1..Len(users) : users[u].username = username

\* db.query(User).filter((User.username == ...) | (User.email == ...)).first()
\* is not None
user_exists(username, email) ==
    \E u \in 1..Len(users) :
        users[u].username = username \/ users[u].email = email

\* The unique constraints of the username and email columns: db.commit()
\* raises IntegrityError for a row that repeats either.
unique_violation(username, email) ==
    \E u \in 1..Len(users) :
        users[u].username = username \/ users[u].email = email

\* POST /register, from the return of `await request.body()` on: the body is
\* parsed and validated (a body that is not the JSON of a UserCreate raises
\* and ends in the handler's 500), the existence check raises 400, otherwise
\* the user is added and committed (a commit the unique constraints refuse
\* is rolled into the same 500); is_admin is set when the admin_code of the
\* body is the configured secret.  The token returned is the Tokens
\* value of the new user_id.
register(r, wellformed, username, email, admin_code_ok) ==
    /\ Arrives(r)
    /\ IF ~wellformed
       THEN /\ Reject(r, "register", 0, 500)
            /\ users' = users
       ELSE IF user_exists(username, email)
       THEN /\ Reject(r, "register", 0, 400)
            /\ users' = users
       ELSE IF unique_violation(username, email)
       THEN /\ Reject(r, "register", 0, 500)
            /\ users' = users
       ELSE /\ users' = Append(users, User(username, email, admin_code_ok))
            /\ req' = [req EXCEPT ![r] =
                   [pc |-> "done", op |-> "register", question_id |-> 0,
                    response |-> Response(200, 0)] @@ NoLocals]
            /\ UNCHANGED <<active_connections, received, send_failed, questions>>
    /\ UNCHANGED <<ws, transport>>

\* ------------------------------------------------------- the read handlers
\* GET /questions/{question_id}: the stored question, or 404.
get_question(r, qid) ==
    /\ Arrives(r)
    /\ UNCHANGED <<ws, transport, users>>
    /\ IF ~question_exists(qid)
       THEN Reject(r, "get", qid, 404)
       ELSE /\ req' = [req EXCEPT ![r] =
                   [pc |-> "done", op |-> "get", question_id |-> qid,
                    response |-> Response(200, qid)] @@ NoLocals]
            /\ UNCHANGED <<active_connections, received, send_failed, questions>>

\* query.filter(Question.status == status_filter), applied only when the
\* parameter is given and not empty: the ids of the rows the query selects.
Selected(status_filter) ==
    {q \in 1..Len(questions) :
        status_filter = "" \/ questions[q].status = status_filter}

\* An ordering that puts older timestamps first.
OrderedBefore_oldest_first(a, b) ==
    \/ questions[a].escalated /\ ~questions[b].escalated
    \/ /\ questions[a].escalated = questions[b].escalated
       /\ questions[a].timestamp < questions[b].timestamp

\* order_by(Question.escalated.desc(), desc(Question.timestamp)): row a has
\* to come before row b.  Rows equal in both columns come in any order.
OrderedBefore(a, b) ==
    \/ questions[a].escalated /\ ~questions[b].escalated
    \/ /\ questions[a].escalated = questions[b].escalated
       /\ questions[a].timestamp > questions[b].timestamp

\* The results .all() can give: the selected rows, each once, in an order
\* the order_by allows.
QueryResults(status_filter) ==
    LET sel == Selected(status_filter)
        n == Cardinality(sel)
    IN {s \in [1..n -> sel] :
           /\ \A i, j \in 1..n : i # j => s[i] # s[j]
           /\ \A i, j \in 1..n : i < j => ~OrderedBefore(s[j], s[i])}

\* GET /questions
list_questions(r, status_filter) ==
    /\ Arrives(r)
    /\ \E result \in QueryResults(status_filter) :
           req' = [req EXCEPT ![r] =
               [pc |-> "done", op |-> "list", question_id |-> 0,
                response |-> [code |-> 200, question_id |-> 0,
                              questions |-> result]] @@ NoLocals]
    /\ UNCHANGED <<active_connections, ws, transport, received, send_failed,
                   questions, users>>

\* --------------------------------------------------------- the /ws endpoint
\* manager.connect: the handshake is accepted and the connection appended;
\* the task then waits in receive_text.  Connections are numbered in the
\* order in which they connect.
connect(c) ==
    /\ ws[c] = "new"
    /\ \A d \in Conns : d < c => ws[d] # "new"
    /\ ws' = [ws EXCEPT ![c] = "receiving"]
    /\ transport' = [transport EXCEPT ![c] = "open"]
    /\ active_connections' = Append(active_connections, c)
    /\ UNCHANGED <<received, send_failed, questions, users, req>>

\* The client goes away: from now on sends to it raise and its receive raises.
transport_close(c) ==
    /\ transport[c] = "open"
    /\ transport' = [transport EXCEPT ![c] = "closed"]
    /\ UNCHANGED <<active_connections, ws, received, send_failed, questions, users,
                   req>>

\* receive_text raises on the closed transport; the except branch of
\* websocket_endpoint calls manager.disconnect and the task ends.
receive_closed(c) ==
    /\ ws[c] = "receiving"
    /\ transport[c] = "closed"
    /\ ws' = [ws EXCEPT ![c] = "done"]
    /\ active_connections' = disconnect(active_connections, c)
    /\ UNCHANGED <<transport, received, send_failed, questions, users, req>>

\* The frames a client sends on the realtime channel: the text "ping", any
\* other text, and a binary frame.
Frames == {"ping", "hello", "binary"}

\* The text "pong" as the client receives it (src 0: sent by no request).
pong_frame == [type |-> "pong", src |-> 0]

\* Number of pongs the client of connection c was sent.
Pongs(c) == Cardinality({i \in 1..Len(received[c]) : received[c][i].type = "pong"})

\* A frame arrives and `await websocket.receive_text()` returns or raises.
\* For a text frame it returns the text: "ping" takes the task into
\* `await websocket.send_text("pong")`, any other text into the next
\* receive_text.  For a binary frame receive_text evaluates message["text"]
\* on the server's receive message: where the server leaves the key out
\* this raises KeyError, the except branch calls manager.disconnect and the
\* endpoint returns, which closes the connection; where the server sets the
\* key to None, None is not "ping" and the loop goes on.
receive_frame(c, frame, has_text_key) ==
    /\ ws[c] = "receiving"
    /\ transport[c] = "open"
    /\ IF frame = "binary" /\ ~has_text_key
       THEN /\ ws' = [ws EXCEPT ![c] = "done"]
            /\ active_connections' = disconnect(active_connections, c)
            /\ transport' = [transport EXCEPT ![c] = "closed"]
       ELSE IF frame = "ping"
       THEN /\ Pongs(c) < MaxPings
            /\ ws' = [ws EXCEPT ![c] = "ponging"]
            /\ UNCHANGED <<active_connections, transport>>
       ELSE UNCHANGED <<ws, active_connections, transport>>
    /\ UNCHANGED <<received, send_failed, questions, users, req>>

\* websocket.send_text("pong"): on an open transport the client gets the
\* pong and the task waits in receive_text again; on a closed one the send
\* raises, the except branch calls manager.disconnect and the task ends.
pong_send(c) ==
    /\ ws[c] = "ponging"
    /\ IF send_ok(c)
       THEN /\ received' = [received EXCEPT ![c] = Append(@, pong_frame)]
            /\ ws' = [ws EXCEPT ![c] = "receiving"]
            /\ UNCHANGED active_connections
       ELSE /\ ws' = [ws EXCEPT ![c] = "done"]
            /\ active_connections' = disconnect(active_connections, c)
            /\ UNCHANGED received
    /\ UNCHANGED <<transport, send_failed, questions, users, req>>

\* ------------------------------------------------------- the specification
Submit == \E r \in Requests, m \in Messages : submit_question(r, m)
Answer == \E r \in Requests, qid \in QuestionIds, token \in Tokens :
              answer_question(r, qid, token)
Escalate == \E r \in Requests, qid \in QuestionIds : escalate_question(r, qid)
Send == \E r \in Requests : broadcast_send(r)
Connect == \E c \in Conns : connect(c)
TransportClose == \E c \in Conns : transport_close(c)
ReceiveClosed == \E c \in Conns : receive_closed(c)

ConnectViewer == \E c \in Conns : (\A d \in Conns : c <= d) /\ connect(c)

\* No handler is inside broadcast.
Quiet == \A r \in Requests : req[r].pc # "sending"

\* Every task of the process, interleaved at the awaits.
Next == Submit \/ Answer \/ Escalate \/ Send \/ Connect \/ TransportClose
        \/ ReceiveClosed

Spec == Init /\ [][Next]_vars

\* The handlers and the store seen by one viewer: the same tasks, with only
\* the first connection ever opened.
NextStore == Submit \/ Answer \/ Escalate \/ Send \/ ConnectViewer
             \/ TransportClose \/ ReceiveClosed

SpecStore == Init /\ [][NextStore]_vars

\* Broadcasts that no connect, disconnect or other broadcast overlaps: a
\* request is handled, a connection is opened and a closure is observed only
\* while no broadcast is in progress.  Transports may close at any time.  The
\* broadcasts are those of submit_question: broadcast does not look into the
\* event it is given.
NextSerial == \/ Quiet /\ Submit
              \/ Quiet /\ Connect
              \/ Quiet /\ ReceiveClosed
              \/ Send
              \/ TransportClose

SpecSerial == Init /\ [][NextSerial]_vars

\* The tokens that identify no stored user: missing, rejected by jwt.decode,
\* and valid with the user_id of no row of the users table.
UnresolvedTokens == Tokens \ UserIds

AnswerUnresolved == \E r \in Requests, qid \in QuestionIds, token \in UnresolvedTokens :
                        answer_question(r, qid, token)

\* The handlers when every answer request comes with such a token.
NextAnonymous == Submit \/ AnswerUnresolved \/ Escalate \/ Send \/ ConnectViewer
                 \/ TransportClose \/ ReceiveClosed

SpecAnonymous == Init /\ [][NextAnonymous]_vars

\* The receive loops of the connections next to the broadcasts of
\* submit_question, one broadcast at a time.
ReceiveFrame == \E c \in Conns, frame \in Frames, has_text_key \in BOOLEAN :
                    receive_frame(c, frame, has_text_key)
PongSend == \E c \in Conns : pong_send(c)

NextPing == \/ ReceiveFrame
            \/ PongSend
            \/ Connect
            \/ TransportClose
            \/ ReceiveClosed
            \/ Quiet /\ Submit
            \/ Send

SpecPing == Init /\ [][NextPing]_vars

\* Registration next to the handlers that read the users table: a user
\* registered with the admin code can answer with the token it was given.
Register == \E r \in Requests, wellformed \in BOOLEAN, username \in Usernames,
               email \in Emails, admin_code_ok \in BOOLEAN :
               register(r, wellformed, username, email, admin_code_ok)

NextRegister == Register \/ Answer \/ Send \/ ConnectViewer

SpecRegister == Init /\ [][NextRegister]_vars

\* The read handlers over a stored table.  The table holds up to MaxRows
\* questions left by earlier requests, each pending, escalated, answered, or
\* both; Question.timestamp is the database clock at the insert, so the
\* timestamps do not decrease with the question_id and questions inserted
\* within one tick of the clock have equal timestamps.  Ticks are counted
\* from the first insert, and only those in which a question was inserted.
Timestamps == 1..MaxTime

\* Question.timestamp: server_default=func.now()
Stamped(row, t) == row @@ [timestamp |-> t]

StoredRows ==
    LET new == NewQuestion(<<"x">>)
    IN {new, escalate_row(new), answer_row(new, 1),
        escalate_row(answer_row(new, 1)), answer_row(escalate_row(new), 1)}

StoredTables ==
    UNION {{t \in [1..n -> {Stamped(row, ts) : row \in StoredRows, ts \in Timestamps}] :
               /\ n > 0 => t[1].timestamp = 1
               /\ \A i \in 1..(n - 1) :
                      t[i + 1].timestamp \in {t[i].timestamp, t[i].timestamp + 1}} :
           n \in 0..MaxRows}

InitRead ==
    /\ active_connections = <<>>
    /\ ws = [c \in Conns |-> "new"]
    /\ transport = [c \in Conns |-> "none"]
    /\ received = [c \in Conns |-> <<>>]
    /\ send_failed = {}
    /\ users = InitialUsers
    /\ questions \in StoredTables
    /\ req = [r \in Requests |-> NewRequest]

\* A status_filter parameter: absent or empty, one of the three statuses, or
\* a string that is the status of no question.
StatusFilters == {"", "Pending", "Escalated", "Answered", "pending"}

GetQuestion == \E r \in Requests, qid \in 1..(MaxRows + 1) : get_question(r, qid)
ListQuestions == \E r \in Requests, f \in StatusFilters : list_questions(r, f)

NextRead == GetQuestion \/ ListQuestions \/ Answer \/ Escalate \/ Send
            \/ ConnectViewer

SpecRead == InitRead /\ [][NextRead]_vars


\* ------------------------------------------------------------------ claims
\* Number of times event e occurs in the sequence s.
Count(s, e) == Cardinality({i \in 1..Len(s) : s[i] = e})

\* Handler r returns from broadcast in this step.
Returns(r) == req[r].pc = "sending" /\ req'[r].pc = "done"

\* The connections of snapshot s, in order, that hold event e once the step is over.
Delivered(s, e) == SelectSeq(s, LAMBDA c : Count(received'[c], e) = 1)

\* The step in which a broadcast returns: the handler answers 200; of the
\* snapshot's connections, those whose send succeeded hold the event exactly
\* once and the others not at all (their send failed); a connection whose
\* transport is still open was sent the event whatever failed before it; the
\* live set becomes the connections that hold the event, in snapshot order.
C1_SerialStep ==
    \A r \in Requests : Returns(r) =>
        LET snapshot == req[r].snapshot
            e == req[r].message
        IN /\ req'[r].response.code = 200
           /\ \A i \in 1..Len(snapshot) :
                  LET c == snapshot[i] IN
                  /\ Count(received'[c], e) <= 1
                  /\ transport'[c] = "open" => Count(received'[c], e) = 1
                  /\ Count(received'[c], e) = 0 => c \in send_failed'
           /\ active_connections' = Delivered(snapshot, e)

\* C1: a broadcast that no connect, disconnect or other broadcast overlaps
\* works on the live set of its call time (its snapshot is the live set for
\* as long as it runs); every connection of that set whose send succeeds
\* receives the event exactly once, a failed send does not stop the sends
\* after it, broadcast returns without raising, and the live set afterwards
\* is exactly the connections whose send succeeded, in their original order.
C1_SerialBroadcast ==
    /\ [](\A r \in Requests :
              req[r].pc = "sending" => req[r].snapshot = active_connections)
    /\ [][C1_SerialStep]_vars

\* C1 witness: three connections were live, the send to the 2nd failed (its
\* closure is not yet observed by its receive loop), the broadcast has
\* returned, and the 1st and 3rd hold the event and are the live set.
C1_Witness ==
    /\ MaxConns >= 3
    /\ \E r \in Requests :
          /\ req[r].pc = "done" /\ req[r].response.code = 200
          /\ \E e \in {received[1][i] : i \in 1..Len(received[1])} :
                 /\ e.src = r
                 /\ Count(received[1], e) = 1
                 /\ Count(received[3], e) = 1
                 /\ Count(received[2], e) = 0
    /\ 2 \in send_failed
    /\ ws[2] = "receiving"
    /\ active_connections = <<1, 3>>


\* C2: when a broadcast returns, every connection that connected while it was
\* in progress (it is registered, its transport open, its receive loop
\* running, and it is not in the broadcast's snapshot) is in the live set.
C2_LateJoinerStaysLive ==
    [][\A r \in Requests : Returns(r) =>
          \A c \in Conns :
              ( /\ ws[c] = "receiving"
                /\ transport[c] = "open"
                /\ ~InSeq(req[r].snapshot, c) ) => InSeq(active_connections', c)]_vars

\* C3: a connection whose endpoint task has called disconnect and ended is
\* not in the live set, also once a broadcast that overlapped the disconnect
\* has returned.
C3_ClosedNeverLive ==
    \A c \in Conns : ws[c] = "done" => ~InSeq(active_connections, c)

\* C4: once every broadcast has returned, no connection to which a send
\* failed is in the live set.
C4_FailedSendNotPutBack ==
    Quiet => \A c \in send_failed : ~InSeq(active_connections, c)


\* Every event that has left a handler: those held by a connection and those
\* of the broadcasts in progress.
ReceivedEvents == UNION {{received[c][i] : i \in 1..Len(received[c])} : c \in Conns}
EventsInFlight == {req[r].message : r \in {p \in Requests : req[p].pc = "sending"}}

\* The stored row of the event's question carries the change the event
\* reports, read literally: the row of a new_question exists with the
\* event's message, an answered question has status Answered and answered_by
\* set, an escalated one has escalated true.
StoredAsReported(e) ==
    /\ question_exists(e.question.question_id)
    /\ LET row == questions[e.question.question_id] IN
       /\ IsNewQuestionEvent(e) => row.message = e.question.message
       /\ IsAnswerEvent(e) => row.status = "Answered" /\ row.answered_by # None
       /\ IsEscalationEvent(e) => row.escalated

\* The same with the status of an answered question allowed to have been set
\* to Escalated by a later escalate_question.
StoredAsCommitted(e) ==
    /\ question_exists(e.question.question_id)
    /\ LET row == questions[e.question.question_id] IN
       /\ IsNewQuestionEvent(e) => row.message = e.question.message
       /\ IsAnswerEvent(e) =>
              /\ row.answered_by # None
              /\ \/ row.status = "Answered"
                 \/ row.status = "Escalated" /\ row.escalated
       /\ IsEscalationEvent(e) => row.escalated

\* C5 as claimed: whenever a connection holds an event for question q, the
\* stored row of q exists and has the reported change, status Answered
\* included for an answer.
C5_StoreHasReportedChange == \A e \in ReceivedEvents : StoredAsReported(e)

\* C5 amended: the commit precedes the first send, so whenever an event is
\* held by a connection or is being sent, the row of its question exists and
\* has the committed change: the message of a new question, answered_by set
\* for an answer (with status Answered, or Escalated after a later
\* escalation), escalated true for an escalation.
C5_CommitBeforeSend ==
    \A e \in ReceivedEvents \cup EventsInFlight : StoredAsCommitted(e)

\* C5 witness: a connection holds an answer event and an escalation event of
\* the same question, the escalation committed after the answer.
C5_Witness ==
    \E c \in Conns : \E i, j \in 1..Len(received[c]) :
        /\ i < j
        /\ IsAnswerEvent(received[c][i])
        /\ IsEscalationEvent(received[c][j])
        /\ received[c][i].question.question_id = received[c][j].question.question_id
        /\ questions[received[c][i].question.question_id].status = "Escalated"


\* The events request r has put on connection c.
EventsFrom(r, c) == {i \in 1..Len(received[c]) : received[c][i].src = r}

\* The step leaves the store, the connections' events and the live set alone.
NothingChanged == UNCHANGED <<questions, received, active_connections>>

\* Request r has called broadcast with event e in this step: no send has
\* happened yet; the handler waits in its first send, or, with no live
\* connection, has already returned code 200 and the given body.
BroadcastStarted(r, e, body) ==
    /\ received' = received
    /\ IF active_connections = <<>>
       THEN req'[r].pc = "done" /\ req'[r].response = Response(200, body)
       ELSE /\ req'[r].pc = "sending"
            /\ req'[r].message = e
            /\ req'[r].snapshot = active_connections
            /\ req'[r].idx = 1

\* The step of a submit_question whose message is non-empty after trimming:
\* one new row (status Pending, escalated false, no answered_by, the trimmed
\* message) and one call of broadcast with the new_question event of its id.
C6_SubmitStep ==
    \A r \in Requests, m \in Messages :
        (submit_question(r, m) /\ strip(m) # <<>>) =>
            LET qid == Len(questions) + 1 IN
            /\ Len(questions') = qid
            /\ SubSeq(questions', 1, qid - 1) = questions
            /\ questions'[qid] = [user_id |-> None, message |-> strip(m),
                                  status |-> "Pending", escalated |-> FALSE,
                                  answered_by |-> None]
            /\ BroadcastStarted(r, [type |-> "new_question", src |-> r,
                                    question |-> [question_id |-> qid] @@ questions'[qid]],
                                qid)

\* No connection gets the event of a submit twice, the event carries the id
\* of the created row, and the handler returns that row.
C6_OneEventAndResult ==
    \A r \in Requests : req[r].op = "submit" =>
        /\ \A c \in Conns :
              /\ Cardinality(EventsFrom(r, c)) <= 1
              /\ \A i \in EventsFrom(r, c) :
                     /\ IsNewQuestionEvent(received[c][i])
                     /\ received[c][i].question.question_id = req[r].question_id
        /\ (req[r].pc = "done" /\ req[r].response.code = 200) =>
              /\ req[r].response.question_id = req[r].question_id
              /\ question_exists(req[r].question_id)

\* C6: for every message that is non-empty after trimming, submit_question
\* persists exactly one new question with status Pending, escalated false and
\* no answered_by, starts exactly one broadcast of a new_question event that
\* carries that record's id, and returns the created question.
C6_SubmitPersistsAndBroadcastsOnce ==
    []C6_OneEventAndResult /\ [][C6_SubmitStep]_vars

\* C6 witness: a submit has returned its question and a connection holds its event.
C6_Witness ==
    \E r \in Requests, c \in Conns :
        /\ req[r].op = "submit" /\ req[r].pc = "done" /\ req[r].response.code = 200
        /\ req[r].response.question_id = Len(questions)
        /\ Cardinality(EventsFrom(r, c)) = 1

\* The escalate calls on question q that found the question, and those of
\* them that succeeded (their commit is done: broadcasting, or returned 200).
EscalateCalls(q) ==
    {r \in Requests : /\ req[r].op = "escalate" /\ req[r].question_id = q
                      /\ (req[r].pc = "sending" \/ req[r].response.code \in {200, 400})}
EscalateWins(q) ==
    {r \in EscalateCalls(q) : req[r].pc = "sending" \/ req[r].response.code = 200}
EscalationEvents(q) ==
    {e \in ReceivedEvents \cup EventsInFlight :
        IsEscalationEvent(e) /\ e.question.question_id = q}

\* The step of an escalate_question on an already escalated question: the
\* answer is 400 and neither the store nor any connection's events change.
C7_ConflictStep ==
    \A r \in Requests, qid \in QuestionIds :
        ( /\ escalate_question(r, qid)
          /\ question_exists(qid)
          /\ questions[qid].escalated ) =>
            /\ req'[r].pc = "done"
            /\ req'[r].response.code = 400
            /\ NothingChanged

\* Of the escalate calls made on one question exactly one succeeds, every
\* escalation event of the question comes from that call, and no connection
\* holds it twice.
C7_OneWinner ==
    \A q \in QuestionIds :
        /\ EscalateCalls(q) # {} => Cardinality(EscalateWins(q)) = 1
        /\ {e.src : e \in EscalationEvents(q)} \subseteq EscalateWins(q)
        /\ \A r \in EscalateWins(q), c \in Conns : Cardinality(EventsFrom(r, c)) <= 1

\* C7: escalate_question on an already escalated question fails with 400
\* (ConflictError), changes nothing in the store and broadcasts no event; over
\* any interleaving of escalate calls on one question exactly one succeeds
\* and at most one escalation event is broadcast for it.
C7_EscalateOnce == []C7_OneWinner /\ [][C7_ConflictStep]_vars

\* C7 witness: a second escalate of a question was refused with 400 while the
\* first one was still broadcasting its event.
C7_Witness ==
    \E q \in QuestionIds, r1, r2 \in Requests :
        /\ r1 # r2
        /\ {r1, r2} \subseteq EscalateCalls(q)
        /\ req[r1].pc = "sending"
        /\ req[r2].response.code = 400

\* The step of an answer_question on an existing question with a token that
\* is missing, does not verify, names no stored user or names a user who is no
\* admin: the answer is 403 and nothing changes.
C8_ForbiddenStep ==
    \A r \in Requests, qid \in QuestionIds, token \in Tokens \ AdminIds :
        (answer_question(r, qid, token) /\ question_exists(qid)) =>
            /\ req'[r].pc = "done"
            /\ req'[r].response.code = 403
            /\ NothingChanged

\* C8: answer_question on an existing question by a caller who is anonymous
\* or resolves to a user without the admin flag always fails with 403
\* (ForbiddenError), leaves the question's status and answered_by unchanged
\* and broadcasts no event.
C8_NonAdminForbidden == [][C8_ForbiddenStep]_vars

\* C8 witness: an answer was refused with 403 and its question is unanswered.
C8_Witness ==
    \E r \in Requests :
        /\ req[r].op = "answer" /\ req[r].response.code = 403
        /\ question_exists(req[r].question_id)
        /\ questions[req[r].question_id].status # "Answered"
        /\ questions[req[r].question_id].answered_by = None

\* The step of an answer_question on an existing question with the token of
\* an admin: status Answered and answered_by that admin, whatever was stored
\* before, the rest of the store untouched, and one call of broadcast with the
\* question_updated event of the id, status Answered and that answered_by.
C9_AnswerStep ==
    \A r \in Requests, qid \in QuestionIds, token \in AdminIds :
        (answer_question(r, qid, token) /\ question_exists(qid)) =>
            /\ questions' = [questions EXCEPT ![qid].status = "Answered",
                                              ![qid].answered_by = token]
            /\ BroadcastStarted(r, [type |-> "question_updated", src |-> r,
                                    question |-> [question_id |-> qid,
                                                  status |-> "Answered",
                                                  answered_by |-> token]],
                                0)

\* The answer calls on question q whose commit is done.
AnswerWins(q) ==
    {r \in Requests : /\ req[r].op = "answer" /\ req[r].question_id = q
                      /\ (req[r].pc = "sending" \/ req[r].response.code = 200)}
AnswerEvents(q) ==
    {e \in ReceivedEvents \cup EventsInFlight :
        IsAnswerEvent(e) /\ e.question.question_id = q}

\* No connection holds the event of an answer twice, and when every
\* successful answer of a question has an event to show, the
\* stored answered_by is the one of the answer that committed last (requests
\* are numbered in the order of their arrival, and an answer commits when it
\* arrives).
C9_LastWriteWins ==
    \A q \in QuestionIds :
        /\ \A r \in AnswerWins(q), c \in Conns : Cardinality(EventsFrom(r, c)) <= 1
        /\ (AnswerWins(q) # {} /\ AnswerWins(q) = {e.src : e \in AnswerEvents(q)}) =>
              \E e \in AnswerEvents(q) :
                  /\ \A r \in AnswerWins(q) : r <= e.src
                  /\ questions[q].answered_by = e.question.answered_by

\* C9: answer_question on an existing question by an admin sets status
\* Answered and answered_by to that user's id, commits, and then broadcasts
\* exactly one question_updated event carrying the id, status Answered and
\* that answered_by; when two admins answer the same question concurrently
\* the stored answered_by is that of the later commit.
C9_AdminAnswers == []C9_LastWriteWins /\ [][C9_AnswerStep]_vars

\* C9 witness: two admins answer the same question; the first is still
\* broadcasting its event when the second commits, and the store holds the
\* second admin.
C9_Witness ==
    \E q \in QuestionIds, r1, r2 \in Requests :
        /\ r1 < r2
        /\ {r1, r2} \subseteq AnswerWins(q)
        /\ req[r1].pc = "sending" /\ req[r2].pc = "sending"
        /\ req[r1].message.question.answered_by # req[r2].message.question.answered_by
        /\ questions[q].answered_by = req[r2].message.question.answered_by

\* C10: every stored question has one of the three statuses; with escalated
\* true its status is Escalated unless it has been answered (answered_by is
\* set); with status Answered its answered_by is set.
C10_QuestionInvariant ==
    \A q \in 1..Len(questions) :
        /\ questions[q].status \in {"Pending", "Escalated", "Answered"}
        /\ questions[q].escalated =>
              (questions[q].status = "Escalated" \/ questions[q].answered_by # None)
        /\ questions[q].status = "Answered" => questions[q].answered_by # None

\* C10 witness: a question that was escalated and then answered.
C10_Witness ==
    \E q \in 1..Len(questions) :
        /\ questions[q].escalated
        /\ questions[q].status = "Answered"
        /\ questions[q].answered_by \in AdminIds


\* The send that handler r is waiting in goes to a connection whose transport
\* is closed: it raises.
SendFails(r) ==
    /\ req[r].pc = "sending"
    /\ transport[req[r].snapshot[req[r].idx]] # "open"

\* The step in which a send of handler r fails: the store and every
\* connection's events stay as they are and the failing connection is not
\* added to the connections that stay live; after the last connection of the
\* snapshot the handler returns 200 and the live set is the connections whose
\* send succeeded, otherwise the broadcast goes on to its next send.
C11_FailedSendStep ==
    \A r \in Requests : (SendFails(r) /\ broadcast_send(r)) =>
        /\ questions' = questions
        /\ received' = received
        /\ IF req[r].idx = Len(req[r].snapshot)
           THEN /\ req'[r].pc = "done"
                /\ req'[r].response.code = 200
                /\ active_connections' = req[r].living
                /\ ~InSeq(active_connections', req[r].snapshot[req[r].idx])
           ELSE /\ req'[r].pc = "sending"
                /\ req'[r].idx = req[r].idx + 1
                /\ req'[r].living = req[r].living
                /\ active_connections' = active_connections

\* A handler that has committed (it is broadcasting or has returned) never
\* answers anything but 200, and the row of its question has its change: the
\* row of a submit exists, that of an answer has answered_by set, that of an
\* escalation has escalated true.
C11_OutcomeKept ==
    \A r \in Requests :
        (req[r].pc = "sending" \/ (req[r].pc = "done" /\ req[r].response.code = 200)) =>
            /\ question_exists(req[r].question_id)
            /\ req[r].op = "answer" => questions[req[r].question_id].answered_by # None
            /\ req[r].op = "escalate" => questions[req[r].question_id].escalated

\* C11: a send failure inside broadcast never changes the outcome of the
\* operation that triggered it: the handler returns success and its committed
\* store change stays, also when the send to every live connection fails; the
\* failures only keep the failing connections out of the live set the
\* broadcast installs.
C11_SendFailureNotPropagated ==
    /\ [](C11_OutcomeKept /\ \A r \in Requests : req[r].response.code \in {0, 200, 400, 403, 404, 422})
    /\ [][C11_FailedSendStep]_vars

\* C11 witness: an answer has returned 200 after the send to the only live
\* connection failed; the question is answered, the connection got nothing
\* and the live set is empty.
C11_Witness ==
    \E r \in Requests :
        /\ req[r].op = "answer" /\ req[r].pc = "done" /\ req[r].response.code = 200
        /\ questions[req[r].question_id].status = "Answered"
        /\ send_failed # {}
        /\ \A c \in Conns : received[c] = <<>>
        /\ active_connections = <<>>

\* A message that is empty or has nothing but whitespace.
Blank(m) == \A i \in 1..Len(m) : m[i] = " "

\* C12: submit_question with a message that is empty or consists only of
\* whitespace is rejected as a validation error (422 from the schema for the
\* empty string, 400 from the handler for whitespace), creates no question
\* and broadcasts no event: the questions, every connection's received
\* events and the live set are as before the call.
C12_BlankRejected ==
    [][\A r \in Requests, m \in Messages :
        (submit_question(r, m) /\ Blank(m)) =>
            /\ req'[r].pc = "done"
            /\ req'[r].response.code \in {400, 422}
            /\ req'[r].response.question_id = 0
            /\ NothingChanged]_vars

\* C12 witness: a whitespace-only submit was rejected with 400 while a viewer
\* was connected; the viewer got nothing.
C12_Witness ==
    \E r \in Requests :
        /\ req[r].op = "submit" /\ req[r].pc = "done" /\ req[r].response.code = 400
        /\ active_connections # <<>>
        /\ \A c \in Conns : received[c] = <<>>

\* C13: for a question id that is not stored, get_question, answer_question
\* (whatever the token: anonymous, non-admin or admin) and escalate_question
\* each end in 404, leave the store as it is and broadcast no event.
C13_MissingIdNotFound ==
    [][\A r \in Requests, qid \in 1..(MaxRows + 1) :
        (/\ qid > Len(questions)
         /\ \/ get_question(r, qid)
            \/ \E token \in Tokens : answer_question(r, qid, token)
            \/ escalate_question(r, qid)) =>
            /\ req'[r].pc = "done"
            /\ req'[r].response.code = 404
            /\ NothingChanged]_vars

\* C13 witness: a get and an answer on ids that are not stored both ended in
\* 404 while a viewer was connected, and the viewer got nothing.
C13_Witness ==
    /\ \E r \in Requests : /\ req[r].op = "get" /\ req[r].response.code = 404
                           /\ req[r].question_id > Len(questions)
    /\ \E r \in Requests : /\ req[r].op = "answer" /\ req[r].response.code = 404
                           /\ req[r].question_id > Len(questions)
    /\ active_connections # <<>>
    /\ \A c \in Conns : received[c] = <<>>

\* The stored table of the example: A (t=1, not escalated), B (t=2,
\* escalated), C (t=3, not escalated) under the ids 1, 2, 3.
ExampleTable ==
    /\ Len(questions) = 3
    /\ questions[1].timestamp = 1 /\ ~questions[1].escalated
    /\ questions[2].timestamp = 2 /\ questions[2].escalated
    /\ questions[3].timestamp = 3 /\ ~questions[3].escalated

\* C14: list_questions answers 200 with every stored question exactly once
\* (only those whose status equals the filter when a filter is given), every
\* escalated question before every non-escalated one and, among questions
\* with the same flag, no older timestamp before a newer one; for the example
\* table without filter the result is [B, C, A].  The step changes nothing in
\* the store, sends no event and leaves the live set.
C14_ListOrdered ==
    [][\A r \in Requests, f \in StatusFilters : list_questions(r, f) =>
        LET s == req'[r].response.questions IN
        /\ req'[r].response.code = 200
        /\ \A q \in 1..Len(questions) :
               Count(s, q) = IF f = "" \/ questions[q].status = f THEN 1 ELSE 0
        /\ \A i \in 1..Len(s) : s[i] \in 1..Len(questions)
        /\ \A i, j \in 1..Len(s) : i < j =>
               /\ questions[s[j]].escalated => questions[s[i]].escalated
               /\ questions[s[i]].escalated = questions[s[j]].escalated =>
                      questions[s[i]].timestamp >= questions[s[j]].timestamp
        /\ (ExampleTable /\ f = "") => s = <<2, 3, 1>>
        /\ NothingChanged]_vars

\* C14 witness: the unfiltered list of the example table was returned as
\* [B, C, A], and a filtered list of it held the escalated question alone.
C14_Witness ==
    /\ ExampleTable
    /\ questions[2].status = "Escalated" /\ questions[1].status # "Escalated"
    /\ questions[3].status # "Escalated"
    /\ req[1].op = "list" /\ req[1].response.questions = <<2, 3, 1>>
    /\ req[2].op = "list" /\ req[2].response.questions = <<2>>

\* The status codes the handlers answer with (0: no response yet); 500 is
\* not among them.
NoInternalError ==
    \A r \in Requests : req[r].response.code \in {0, 200, 400, 403, 404, 422}

\* C15: a missing token, a token that jwt.decode rejects (tampered, expired,
\* garbage) and a valid token whose user_id is the id of no stored user all
\* resolve to no user; answer_question with such a token on a stored question
\* ends in 403 with the store, the events and the live set unchanged, and no
\* handler ever answers 500.
C15_UnresolvedTokenForbidden ==
    /\ [](NoInternalError /\ \A token \in UnresolvedTokens : get_current_user(token) = None)
    /\ [][\A r \in Requests, qid \in QuestionIds, token \in UnresolvedTokens :
            (answer_question(r, qid, token) /\ qid <= Len(questions)) =>
                /\ req'[r].pc = "done"
                /\ req'[r].response.code = 403
                /\ NothingChanged]_vars

\* C15 witness: two answer requests without a resolvable token were made on
\* the stored question; both ended in 403 and the question is still pending
\* and unanswered.
C15_Witness ==
    /\ Len(questions) = 1
    /\ \A r \in Requests : /\ req[r].op = "answer" /\ req[r].question_id = 1
                           /\ req[r].response.code = 403
    /\ questions[1].status = "Pending" /\ questions[1].answered_by = None

\* No two rows of the users table have the same username or the same email.
UsersUnique ==
    \A u, v \in 1..Len(users) : u # v =>
        /\ users[u].username # users[v].username
        /\ users[u].email # users[v].email

\* C16: whatever register requests were handled, no two stored users share a
\* username and no two share an email; a register whose username or email is
\* that of a stored user is rejected with 400 and adds no user, and one
\* whose username and email are both new adds exactly that user.
C16_UniqueUsers ==
    /\ []UsersUnique
    /\ [][\A r \in Requests, username \in Usernames, email \in Emails, a \in BOOLEAN :
            register(r, TRUE, username, email, a) =>
                IF \E u \in 1..Len(users) :
                       users[u].username = username \/ users[u].email = email
                THEN req'[r].response.code = 400 /\ users' = users
                ELSE /\ req'[r].response.code = 200
                     /\ users' = Append(users, User(username, email, a))]_vars

\* C16 witness: a register with a new username and a new email added a
\* fourth user, and the register after it, which named that email or that
\* username again, was rejected.
C16_Witness ==
    /\ Len(users) = 4
    /\ users[4].username = "u4" /\ users[4].email = "e4"
    /\ req[1].op = "register" /\ req[1].response.code = 200
    /\ req[2].op = "register" /\ req[2].response.code = 400

\* C17: a connection whose receive loop has raised on the closed transport
\* (its endpoint task has called disconnect and ended) is out of the live set
\* once the broadcasts that were in progress at that moment have returned,
\* whether or not another broadcast is ever issued: in every state in which
\* no broadcast is in progress, no such connection is in the live set.
C17_ClosedRemovedWhenQuiet ==
    Quiet => \A c \in Conns :
        (ws[c] = "done" /\ transport[c] = "closed") => ~InSeq(active_connections, c)

\* The steps of the receive loops for inbound frames of the given kinds: a
\* "ping" takes the task of its connection into the send of the pong and
\* changes nothing else; that send, on an open transport, gives the client of
\* that connection one pong and nothing to any other client; nothing but that
\* send gives a client a pong; a frame that is not "ping" gets no reply,
\* leaves the store and the live set as they are and the connection open and
\* receiving.
FramesHandled(frames) ==
    /\ \A c \in Conns, frame \in frames, k \in BOOLEAN : receive_frame(c, frame, k) =>
           /\ NothingChanged
           /\ transport'[c] = "open"
           /\ ws'[c] = IF frame = "ping" THEN "ponging" ELSE "receiving"
    /\ \A c \in Conns : (pong_send(c) /\ transport[c] = "open") =>
           /\ received' = [received EXCEPT ![c] = Append(@, pong_frame)]
           /\ ws'[c] = "receiving"
           /\ UNCHANGED <<questions, active_connections>>
    /\ \A c \in Conns : Pongs(c)' # Pongs(c) =>
           /\ ws[c] = "ponging"
           /\ Pongs(c)' = Pongs(c) + 1

\* C18: every inbound "ping" on a live connection is answered with exactly
\* one "pong" on that connection, and any other inbound payload, text or
\* binary, produces no reply, changes neither the live set nor the question
\* store and leaves the connection live.
C18_PingPong == [][FramesHandled(Frames)]_vars

\* The list s without connection c, the others in their order.
Without(s, c) == SelectSeq(s, LAMBDA x : x # c)

\* disconnect on the live set of this state, for every connection: a
\* connection that is in the list is removed and the others stay in their
\* order; for one that is not in the list (never connected, already
\* disconnected, pruned by a broadcast) the list is returned as it is; a
\* second disconnect changes nothing.  No connection is in the list twice.
C19_DisconnectOnLiveSet ==
    /\ \A i, j \in 1..Len(active_connections) :
           i # j => active_connections[i] # active_connections[j]
    /\ \A c \in Conns :
           LET d == disconnect(active_connections, c) IN
           /\ d = Without(active_connections, c)
           /\ ~InSeq(d, c)
           /\ ~InSeq(active_connections, c) => d = active_connections
           /\ disconnect(d, c) = d

\* C19: disconnect is idempotent: disconnect(c) with c in the live set
\* removes c and nothing else, with c not in the live set it leaves the live
\* set unchanged, in every state of the program and in every step in which
\* an endpoint task calls it.
C19_DisconnectIdempotent ==
    /\ []C19_DisconnectOnLiveSet
    /\ [][\A c \in Conns : receive_closed(c) =>
             /\ active_connections' = Without(active_connections, c)
             /\ ~InSeq(active_connections, c) => active_connections' = active_connections
             /\ UNCHANGED <<received, questions, req>>]_vars

\* C19 witness: the endpoint task of a connection that a failed broadcast
\* send had pruned has called disconnect and ended; the connection is not in
\* the live set and every other connection is.
C19_Witness ==
    \E c \in Conns :
        /\ ws[c] = "done" /\ c \in send_failed
        /\ ~InSeq(active_connections, c)
        /\ Len(active_connections) = MaxConns - 1

\* C20 as stated: once the status of a question is Answered, no step of a
\* submit_question, escalate_question or answer_question changes it.
C20_AnsweredTerminal ==
    [][\A q \in 1..Len(questions) :
          questions[q].status = "Answered" => questions'[q].status = "Answered"]_vars

\* C20: a question whose status is Answered keeps that status in every step
\* of submit_question and answer_question and of every rejected call; the one
\* step that changes it is an escalate_question on it while it is not yet
\* escalated, which sets status Escalated and the flag and keeps answered_by.
\* A question that is answered and escalated stays Answered, and answered_by,
\* once set, is never cleared.
C20_AnsweredUntilEscalated ==
    [][\A q \in 1..Len(questions) :
          /\ questions[q].answered_by # None => questions'[q].answered_by # None
          /\ questions[q].status = "Answered" =>
                \/ questions'[q].status = "Answered"
                \/ /\ ~questions[q].escalated
                   /\ questions'[q] = [questions[q] EXCEPT !.status = "Escalated",
                                                           !.escalated = TRUE]
                   /\ \E r \in Requests : /\ req[r].pc = "new"
                                          /\ req'[r].op = "escalate"
                                          /\ req'[r].question_id = q
          /\ (questions[q].status = "Answered" /\ questions[q].escalated) =>
                questions'[q].status = "Answered"]_vars

\* C20 witness: a question was answered and then escalated: its status is
\* Escalated with answered_by set, and both calls returned 200.
C20_Witness ==
    \E q \in 1..Len(questions) :
        /\ questions[q].status = "Escalated" /\ questions[q].answered_by # None
        /\ req[1].op = "answer" /\ req[1].question_id = q /\ req[1].response.code = 200
        /\ req[2].op = "escalate" /\ req[2].question_id = q /\ req[2].response.code = 200

\* The requests whose events connection c holds, in the order it got them.
\* A handler commits in the step in which its request arrives and requests
\* arrive in the order of their numbers, so the smaller number committed
\* first.
Sources(c) == [i \in 1..Len(received[c]) |-> received[c][i].src]

\* C21 as stated: every connection that holds the events of two operations
\* holds the event of the one that committed first before the other's, so
\* two connections that hold the same two events hold them in the same
\* order.
C21_CommitOrder ==
    /\ \A c \in Conns : \A i, j \in 1..Len(received[c]) :
           i < j => Sources(c)[i] < Sources(c)[j]
    /\ \A c, d \in Conns : \A i, j \in 1..Len(received[c]), k, l \in 1..Len(received[d]) :
           (i < j /\ Sources(c)[i] = Sources(d)[l] /\ Sources(c)[j] = Sources(d)[k])
               => l < k

\* C21: a connection gets events one at a time, each after the ones it
\* already holds, and only from a broadcast that is in progress and is at
\* that connection in its snapshot; a request that has not committed and a
\* broadcast that has returned deliver nothing.  So the event of an
\* operation whose broadcast returned before another operation committed
\* comes first on every connection that gets both; the events of two
\* broadcasts that overlap come in the order in which their sends complete.
C21_OrderedWhenNotOverlapping ==
    [][\A c \in Conns : received'[c] # received[c] =>
          \E r \in Requests :
              /\ req[r].pc = "sending"
              /\ req[r].snapshot[req[r].idx] = c
              /\ received'[c] = Append(received[c], req[r].message)
              /\ req[r].message.src = r
              /\ \A p \in Requests : req[p].pc = "new" => EventsFrom(p, c) = {}
              /\ \A p \in Requests \ {r} : req'[p] = req[p]]_vars

\* C21 witness: both broadcasts have returned; one connection holds the
\* event of the first commit before that of the second, another connection
\* holds them the other way round.
C21_Witness ==
    /\ \A r \in Requests : req[r].pc = "done" /\ req[r].response.code = 200
    /\ \E c, d \in Conns : Sources(c) = <<1, 2>> /\ Sources(d) = <<2, 1>>

==========================================================================
